---------------------------- MODULE Spec2Model ----------------------------
(***************************************************************************)
(* A model of backend/scheduler_app/genetic_algorithm.py: the genetic      *)
(* timetable optimizer (class GeneticAlgorithm).                           *)
(*                                                                         *)
(* Python objects are modelled with their identity.  An Assignment is a    *)
(* mutable dict: it lives in `heap' under an object id and chromosomes     *)
(* hold ids, so that two chromosomes can share one dict.  A chromosome is  *)
(* a list that is never changed in place once built, so it is a record     *)
(* [id, items]: its own object id and the ids of its dicts.  Catalog rows  *)
(* (Django model instances) are referred to by primary key; the code       *)
(* compares them by .id only.                                              *)
(*                                                                         *)
(* Fitness values are Python floats; they are modelled as exact rationals  *)
(* [n, d] (d > 0).                                                         *)
(***************************************************************************)
EXTENDS Integers, Sequences, FiniteSets, TLC

VARIABLES
    db,                 \* the catalog tables read by __init__
    ga,                 \* the GeneticAlgorithm object (self)
    pc,                 \* position in the running operation
    heap,               \* object id -> Assignment dict
    next_id,            \* next unused object id
    generation,         \* evolve: the loop variable
    population,         \* evolve: list of chromosomes
    fitness_scores,     \* evolve: list of fitness values
    best_fitness,       \* evolve
    best_individual,    \* evolve: a chromosome, or None
    generations_without_improvement,
    selected_population,
    new_population,
    parents,            \* evolve: <<parent1, parent2>>
    children,           \* evolve: <<child1, child2>>
    call                \* the operation under test in the single-call specifications

evolveVars == <<generation, population, fitness_scores, best_fitness, best_individual,
                generations_without_improvement, selected_population, new_population,
                parents, children>>

vars == <<db, ga, pc, heap, next_id, evolveVars, call>>

----------------------------------------------------------------------------
(* Values *)

None == 0

NoList == [id |-> None, items |-> <<>>]

Time(h, m) == h * 60 + m

Hour(t) == t \div 60

Max(a, b) == IF a >= b THEN a ELSE b

Min(a, b) == IF a <= b THEN a ELSE b

Range(s) == {s[i] : i \in DOMAIN s}

Rat(n, d) == [n |-> n, d |-> d]

RatLess(a, b) == a.n * b.d < b.n * a.d

RatLeq(a, b) == a.n * b.d <= b.n * a.d

RatEq(a, b) == a.n * b.d = b.n * a.d

\* The locals of evolve before it runs.
IdleEvolve ==
    /\ generation = 0
    /\ population = <<>>
    /\ fitness_scores = <<>>
    /\ best_fitness = Rat(0, 1)
    /\ best_individual = NoList
    /\ generations_without_improvement = 0
    /\ selected_population = <<>>
    /\ new_population = <<>>
    /\ parents = <<>>
    /\ children = <<>>

----------------------------------------------------------------------------
(* The catalog: rows of models.py, keyed by primary key *)

DayRank(day) ==
    CASE day = "Friday" -> 1
      [] day = "Monday" -> 2
      [] day = "Saturday" -> 3
      [] day = "Thursday" -> 4
      [] day = "Tuesday" -> 5
      [] day = "Wednesday" -> 6

MeetingTimeRow(day, start_time, end_time, is_lunch_break) ==
    [day |-> day, start_time |-> start_time, end_time |-> end_time,
     is_lunch_break |-> is_lunch_break]

RoomRow(capacity, room_type, is_available) ==
    [capacity |-> capacity, room_type |-> room_type, is_available |-> is_available]

CourseRow(course_type, max_students, duration, instructors, classes_per_week) ==
    [course_type |-> course_type, max_students |-> max_students, duration |-> duration,
     instructors |-> instructors, classes_per_week |-> classes_per_week]

SectionRow(department, year, semester, courses) ==
    [department |-> department, year |-> year, semester |-> semester, courses |-> courses]

\* The time slots the snapshots draw from.
SlotUniverse ==
    ( 1 :> MeetingTimeRow("Monday", Time(9, 0), Time(10, 0), FALSE)
   @@ 2 :> MeetingTimeRow("Monday", Time(10, 0), Time(11, 0), FALSE)
   @@ 3 :> MeetingTimeRow("Monday", Time(12, 0), Time(13, 0), FALSE)
   @@ 4 :> MeetingTimeRow("Monday", Time(13, 0), Time(14, 0), FALSE)
   @@ 5 :> MeetingTimeRow("Monday", Time(11, 0), Time(12, 0), TRUE)
   @@ 6 :> MeetingTimeRow("Monday", Time(14, 0), Time(15, 0), FALSE)
   @@ 7 :> MeetingTimeRow("Tuesday", Time(10, 0), Time(11, 0), FALSE)
   @@ 8 :> MeetingTimeRow("Tuesday", Time(11, 0), Time(12, 30), FALSE)
   @@ 9 :> MeetingTimeRow("Monday", Time(9, 30), Time(10, 30), FALSE) )

Restrict(f, S) == [x \in S |-> f[x]]


----------------------------------------------------------------------------
(* GeneticAlgorithm.__init__ and _generate_required_classes *)

RECURSIVE Flatten(_)
Flatten(ss) == IF ss = <<>> THEN <<>> ELSE Head(ss) \o Flatten(Tail(ss))

\* The ids of S as a list in ascending order of Key (ties by id).
RECURSIVE OrderBy(_, _)
OrderBy(S, Key) ==
    IF S = {} THEN <<>>
    ELSE LET m == CHOOSE x \in S : \A y \in S : Key[x] < Key[y] \/ (Key[x] = Key[y] /\ x <= y)
         IN  <<m>> \o OrderBy(S \ {m}, Key)

\* One requirement dict of _generate_required_classes.
ClassObj(table, section, course, i) ==
    [id |-> <<section, course, i>>,
     course |-> course,
     section |-> section,
     duration |-> table.Course[course].duration,
     instructor |-> None,
     room |-> None,
     meeting_time |-> None,
     consecutive_slots |-> <<>>]

GenerateRequiredClasses(table, sections) ==
    Flatten([k \in DOMAIN sections |->
        LET section == sections[k]
            courses == table.Section[section].courses
        IN  Flatten([j \in DOMAIN courses |->
                [i \in 1..table.Course[courses[j]].classes_per_week |->
                    ClassObj(table, section, courses[j], i - 1)]])])

\* The object __init__ builds from the tables and the request's settings.
\* `args' holds the constructor's arguments by name.
NewGA(table, args) ==
    LET department_ids == args.department_ids
        years == args.years
        semester == args.semester
        population_size == args.population_size
        mutation_rate == args.mutation_rate
        elite_rate == args.elite_rate
        generations == args.generations
        matching == {s \in DOMAIN table.Section :
                        /\ table.Section[s].department \in department_ids
                        /\ table.Section[s].year \in years
                        /\ table.Section[s].semester = semester}
        sections == OrderBy(matching, [s \in matching |-> s])
        slots == {t \in DOMAIN table.MeetingTime : ~table.MeetingTime[t].is_lunch_break}
    IN  [department_ids |-> department_ids,
         years |-> years,
         semester |-> semester,
         population_size |-> population_size,
         mutation_rate |-> mutation_rate,
         elite_rate |-> elite_rate,
         generations |-> generations,
         sections |-> sections,
         instructors |-> {i \in DOMAIN table.Instructor : table.Instructor[i].is_available},
         rooms |-> {r \in DOMAIN table.Room : table.Room[r].is_available},
         meeting_times |-> OrderBy(slots,
             [t \in slots |-> DayRank(table.MeetingTime[t].day) * Time(24, 0)
                              + table.MeetingTime[t].start_time]),
         all_classes |-> GenerateRequiredClasses(table, sections)]

----------------------------------------------------------------------------
(* _get_suitable_rooms and _find_consecutive_slots *)

GetSuitableRooms(course) ==
    IF db.Course[course].course_type = "Lab"
    THEN {r \in ga.rooms : db.Room[r].room_type = "Lab"}
    ELSE {r \in ga.rooms : db.Room[r].capacity >= db.Course[course].max_students}

\* list.sort(key=start_time): a stable insertion sort.
RECURSIVE SortByStartTime(_)
SortByStartTime(times) ==
    IF times = <<>> THEN <<>>
    ELSE LET rest == SortByStartTime(SubSeq(times, 1, Len(times) - 1))
             x == times[Len(times)]
             k == Cardinality({i \in DOMAIN rest :
                      db.MeetingTime[rest[i]].start_time <= db.MeetingTime[x].start_time})
         IN  SubSeq(rest, 1, k) \o <<x>> \o SubSeq(rest, k + 1, Len(rest))

\* IsLunchPair with < 13 for <= 13.
IsLunchPairBefore13(a, b) ==
    Hour(db.MeetingTime[a].start_time) < 13 /\ Hour(db.MeetingTime[b].end_time) >= 14

\* The lunch test of line 123.
IsLunchPair(a, b) ==
    Hour(db.MeetingTime[a].start_time) <= 13 /\ Hour(db.MeetingTime[b].end_time) >= 14

\* The pairs collected by _find_consecutive_slots.  The result is used only by
\* a truth test and random.choice, so the list is given as the set of its items.
FindConsecutiveSlots ==
    LET days == {db.MeetingTime[t].day : t \in Range(ga.meeting_times)}
        times_by_day == [day \in days |->
            SelectSeq(ga.meeting_times, LAMBDA t : db.MeetingTime[t].day = day)]
    IN  UNION {
            LET times == SortByStartTime(times_by_day[day])
            IN  {<<times[i], times[i + 1]>> : i \in
                    {j \in 1..(Len(times) - 1) :
                        /\ db.MeetingTime[times[j]].end_time
                             = db.MeetingTime[times[j + 1]].start_time
                        /\ ~IsLunchPair(times[j], times[j + 1])}}
            : day \in days}

----------------------------------------------------------------------------
(* calculate_fitness, _has_conflict, _get_class_time_range, _same_time_slot *)

\* Python truth of the three assignable fields.
IsFullyAssigned(cls) ==
    cls.instructor /= None /\ cls.room /= None /\ cls.meeting_time /= None

GetClassTimeRange(class_obj) ==
    IF class_obj.duration = 2 /\ class_obj.consecutive_slots /= <<>>
    THEN LET slots == Range(class_obj.consecutive_slots)
             starts == {db.MeetingTime[s].start_time : s \in slots}
             ends == {db.MeetingTime[s].end_time : s \in slots}
         IN  <<CHOOSE x \in starts : \A y \in starts : x <= y,
               CHOOSE x \in ends : \A y \in ends : x >= y>>
    ELSE <<db.MeetingTime[class_obj.meeting_time].start_time,
           db.MeetingTime[class_obj.meeting_time].end_time>>

\* SameTimeSlot with <= for <: touching endpoints overlap.
SameTimeSlotClosed(class1, class2) ==
    IF db.MeetingTime[class1.meeting_time].day /= db.MeetingTime[class2.meeting_time].day
    THEN FALSE
    ELSE LET r1 == GetClassTimeRange(class1)
             r2 == GetClassTimeRange(class2)
         IN  Max(r1[1], r2[1]) <= Min(r1[2], r2[2])

SameTimeSlot(class1, class2) ==
    IF db.MeetingTime[class1.meeting_time].day /= db.MeetingTime[class2.meeting_time].day
    THEN FALSE
    ELSE LET r1 == GetClassTimeRange(class1)
             r2 == GetClassTimeRange(class2)
         IN  Max(r1[1], r2[1]) < Min(r1[2], r2[2])

HasConflict(class1, class2) ==
    /\ SameTimeSlot(class1, class2)
    /\ \/ class1.instructor = class2.instructor
       \/ class1.room = class2.room
       \/ class1.section = class2.section

\* Lines 137-140: the number of dicts with a field unset.
UnassignedPenalty(individual) ==
    Cardinality({p \in DOMAIN individual : ~IsFullyAssigned(individual[p])})

\* Conflicts with the inner loop over range(num_fully_assigned): every
\* conflicting pair counted in both orders.
ConflictsOrderedPairs(individual) ==
    LET fully_assigned_classes == SelectSeq(individual, IsFullyAssigned)
        num_fully_assigned == Len(fully_assigned_classes)
    IN  Cardinality({ij \in (1..num_fully_assigned) \X (1..num_fully_assigned) :
            /\ ij[1] /= ij[2]
            /\ HasConflict(fully_assigned_classes[ij[1]], fully_assigned_classes[ij[2]])})

\* Lines 143-153: the conflicting pairs among the fully assigned dicts.
Conflicts(individual) ==
    LET fully_assigned_classes == SelectSeq(individual, IsFullyAssigned)
        num_fully_assigned == Len(fully_assigned_classes)
    IN  Cardinality({ij \in (1..num_fully_assigned) \X (1..num_fully_assigned) :
            /\ ij[1] < ij[2]
            /\ HasConflict(fully_assigned_classes[ij[1]], fully_assigned_classes[ij[2]])})

\* FitnessOfPenalties without the clamp max(0, ...).
FitnessUnclamped(total_classes, conflicts, unassigned_penalty) ==
    LET total_penalties == conflicts + unassigned_penalty * 10
        max_possible_penalties ==
            (total_classes * (total_classes - 1)) \div 2 + total_classes
    IN  Rat((max_possible_penalties - total_penalties) * 100, max_possible_penalties)

\* FitnessOfPenalties with the floor division total_penalties // max_possible_penalties.
FitnessFloorDivision(total_classes, conflicts, unassigned_penalty) ==
    LET total_penalties == conflicts + unassigned_penalty * 10
        max_possible_penalties ==
            (total_classes * (total_classes - 1)) \div 2 + total_classes
    IN  Rat(Max(0, (1 - (total_penalties \div max_possible_penalties)) * 100), 1)

\* FitnessOfPenalties as a fraction of 1 instead of a percentage.
FitnessFraction(total_classes, conflicts, unassigned_penalty) ==
    LET total_penalties == conflicts + unassigned_penalty * 10
        max_possible_penalties ==
            (total_classes * (total_classes - 1)) \div 2 + total_classes
    IN  Rat(Max(0, max_possible_penalties - total_penalties), max_possible_penalties)

\* Line 156.
TotalPenalties(conflicts, unassigned_penalty) == conflicts + unassigned_penalty * 10

\* Line 162: n * (n - 1) is even, so the true division is exact.
MaxPossiblePenalties(total_classes) ==
    (total_classes * (total_classes - 1)) \div 2 + total_classes

\* Lines 155-169, for a non-empty individual.
FitnessOfPenalties(total_classes, conflicts, unassigned_penalty) ==
    LET total_penalties == TotalPenalties(conflicts, unassigned_penalty)
        max_possible_penalties == MaxPossiblePenalties(total_classes)
    IN  IF max_possible_penalties = 0
        THEN (IF total_penalties = 0 THEN Rat(100, 1) ELSE Rat(0, 1))
        ELSE Rat(Max(0, (max_possible_penalties - total_penalties) * 100),
                 max_possible_penalties)

\* calculate_fitness scoring the chromosome of zero requirements 100.
CalculateFitnessEmptyPerfect(individual) ==
    LET total_classes == Len(individual)
    IN  IF total_classes = 0
        THEN Rat(100, 1)
        ELSE FitnessOfPenalties(total_classes, Conflicts(individual),
                                UnassignedPenalty(individual))

\* calculate_fitness(individual), individual given as the list of its dicts.
CalculateFitness(individual) ==
    LET total_classes == Len(individual)
    IN  IF total_classes = 0
        THEN Rat(0, 1)
        ELSE FitnessOfPenalties(total_classes, Conflicts(individual),
                                UnassignedPenalty(individual))

----------------------------------------------------------------------------
(* Catalog snapshots the runs start from *)

CourseUniverse ==
    ( 1 :> CourseRow("Theory", 60, 1, {1}, 1)
   @@ 2 :> CourseRow("Lab", 30, 2, {}, 1)
   @@ 3 :> CourseRow("Theory", 100, 1, {}, 2)
   @@ 4 :> CourseRow("Theory", 30, 1, {}, 1)
   @@ 5 :> CourseRow("Theory", 30, 1, {}, 13) )

RoomUniverse(available) ==
    ( 1 :> RoomRow(60, "Classroom", 1 \in available)
   @@ 2 :> RoomRow(30, "Lab", 2 \in available) )

InstructorUniverse(available) ==
    [i \in {1, 2} |-> [is_available |-> i \in available]]

Tables(instructors, rooms, slots, sections) ==
    [Instructor |-> InstructorUniverse(instructors),
     Room |-> RoomUniverse(rooms),
     MeetingTime |-> Restrict(SlotUniverse, slots),
     Course |-> CourseUniverse,
     Section |-> sections]

\* No section of the requested semester: zero requirements.
NoSectionTables ==
    Tables({1, 2}, {1, 2}, {1, 2}, 1 :> SectionRow(1, 1, 2, <<1>>))

\* No available instructor and no available room: every dict stays unassigned.
NoStaffTables ==
    Tables({}, {}, {1, 5}, 1 :> SectionRow(1, 1, 1, <<3>>))

\* Instructor and room, but no time slot that is not a break.
NoSlotTables ==
    Tables({1}, {1}, {5}, 1 :> SectionRow(1, 1, 1, <<1>>))

\* One section, one course, one instructor, one room, one slot.
SingleTables ==
    Tables({1}, {1}, {1}, 1 :> SectionRow(1, 1, 1, <<1>>))

\* Two sections that must share the one instructor, room and slot.
SharedTables ==
    Tables({1}, {1}, {1}, 1 :> SectionRow(1, 1, 1, <<1>>) @@ 2 :> SectionRow(1, 1, 1, <<1>>))

\* Two sections, one instructor and room, two slots.
TwoSlotTables ==
    Tables({1}, {1}, {1, 2, 5},
           1 :> SectionRow(1, 1, 1, <<1>>) @@ 2 :> SectionRow(1, 1, 1, <<1>>)
           @@ 3 :> SectionRow(2, 1, 1, <<1>>))

\* A lab course (two consecutive slots) beside a theory course whose only
\* eligible instructor is not available.
LabTables ==
    Tables({2}, {1, 2}, {1, 2, 5, 7}, 1 :> SectionRow(1, 1, 1, <<1, 2>>))

\* Three classes of one section over overlapping and disjoint slots.
ThreeClassTables ==
    Tables({1}, {1}, {1, 2, 3, 9}, 1 :> SectionRow(1, 1, 1, <<1, 3>>))

\* A lab course where no two slots are consecutive outside lunch.
LabNoPairTables ==
    Tables({2}, {1}, {3, 4, 7}, 1 :> SectionRow(1, 1, 1, <<2, 1>>))

\* Two sections, each with one class free to take either instructor, either
\* room and either slot.
TwoSectionFreeTables ==
    Tables({1, 2}, {1, 2}, {1, 2},
           1 :> SectionRow(1, 1, 1, <<4>>) @@ 2 :> SectionRow(1, 1, 1, <<4>>))

\* Three classes of one section in two slots: one or three conflicting pairs,
\* fitness 5/6 or 1/2 of 100, never 90.
CrowdedTables ==
    Tables({1}, {1}, {1, 2}, 1 :> SectionRow(1, 1, 1, <<1, 3>>))

EvolveTables ==
    {NoSectionTables, NoStaffTables, NoSlotTables, SingleTables, SharedTables,
     TwoSlotTables, LabTables}

AllTables == EvolveTables \cup {ThreeClassTables, LabNoPairTables}

FitnessTables == AllTables \cup {TwoSectionFreeTables}

DefaultMutationRate == Rat(1, 10)

DefaultEliteRate == Rat(1, 10)

\* The request of views.py generate for department 1, year 1, semester 1.
Request(table, population_size, elite_rate, generations) ==
    NewGA(table, [department_ids |-> {1}, years |-> {1}, semester |-> 1,
                  population_size |-> population_size,
                  mutation_rate |-> DefaultMutationRate,
                  elite_rate |-> elite_rate,
                  generations |-> generations])

----------------------------------------------------------------------------
(* The random draws of generate_initial_population and mutate *)

\* Lines 58-64 / 252-256: the instructors random.choice can return, {} when
\* both pools are empty.
InstructorPool(class_obj) ==
    LET available_instructors == db.Course[class_obj.course].instructors
    IN  IF available_instructors /= {} THEN available_instructors ELSE ga.instructors

\* Lines 67-73 / 259-263.
RoomPool(class_obj) ==
    LET suitable_rooms == GetSuitableRooms(class_obj.course)
    IN  IF suitable_rooms /= {} THEN suitable_rooms ELSE ga.rooms

\* InitialClassChoices without lines 87-88: a one-slot class gets no time.
InitialClassChoicesTimeUnset(class_obj) ==
    LET instructors == IF InstructorPool(class_obj) = {} THEN {None}
                       ELSE InstructorPool(class_obj)
        rooms == IF RoomPool(class_obj) = {} THEN {None} ELSE RoomPool(class_obj)
        times ==
            IF class_obj.duration = 2 /\ FindConsecutiveSlots /= {}
            THEN {[meeting_time |-> slots[1], consecutive_slots |-> slots] :
                      slots \in FindConsecutiveSlots}
            ELSE {[meeting_time |-> None, consecutive_slots |-> <<>>]}
    IN  {[class_obj EXCEPT !.instructor = i, !.room = r,
                           !.meeting_time = t.meeting_time,
                           !.consecutive_slots = t.consecutive_slots] :
            i \in instructors, r \in rooms, t \in times}

\* Lines 56-90: the dicts initialization can make of one requirement.
InitialClassChoices(class_obj) ==
    LET instructors == IF InstructorPool(class_obj) = {} THEN {None}
                       ELSE InstructorPool(class_obj)
        rooms == IF RoomPool(class_obj) = {} THEN {None} ELSE RoomPool(class_obj)
        times ==
            IF class_obj.duration = 2
            THEN (IF FindConsecutiveSlots /= {}
                  THEN {[meeting_time |-> slots[1], consecutive_slots |-> slots] :
                            slots \in FindConsecutiveSlots}
                  ELSE {[meeting_time |-> None, consecutive_slots |-> <<>>]})
            ELSE (IF ga.meeting_times /= <<>>
                  THEN {[meeting_time |-> t,
                         consecutive_slots |-> class_obj.consecutive_slots] :
                            t \in Range(ga.meeting_times)}
                  ELSE {[meeting_time |-> None,
                         consecutive_slots |-> class_obj.consecutive_slots]})
    IN  {[class_obj EXCEPT !.instructor = i, !.room = r,
                           !.meeting_time = t.meeting_time,
                           !.consecutive_slots = t.consecutive_slots] :
            i \in instructors, r \in rooms, t \in times}

\* The individuals (as lists of dicts) initialization can make of all_classes.
InitialIndividuals ==
    LET n == Len(ga.all_classes)
        pool == UNION {InitialClassChoices(ga.all_classes[p]) : p \in 1..n}
    IN  {ind \in [1..n -> pool] :
            \A p \in 1..n : ind[p] \in InitialClassChoices(ga.all_classes[p])}

----------------------------------------------------------------------------
(* Lists of dicts: copy.deepcopy, crossover, mutate *)

\* The dicts of a chromosome, in order.
Deref(h, list) == [p \in DOMAIN list.items |-> h[list.items[p]]]

\* h extended by the dicts `new' (a function on fresh ids).
Alloc(h, new) == [i \in DOMAIN h \cup DOMAIN new |-> IF i \in DOMAIN new THEN new[i] ELSE h[i]]

\* copy.deepcopy(list): a new list of new dicts with the same contents; a dict
\* that occurs twice in the list is copied once (the memo).  The result is
\* the copy, the heap with the new dicts and the next unused id.
Deepcopy(h, list, nid) ==
    LET items == list.items
        first == [p \in DOMAIN items |->
                    LET at == {q \in DOMAIN items : items[q] = items[p]}
                    IN  CHOOSE q \in at : \A r \in at : q <= r]
        firsts == {first[p] : p \in DOMAIN items}
        copy == [p \in DOMAIN items |->
                    nid + Cardinality({q \in firsts : q <= first[p]})]
    IN  [list |-> [id |-> nid, items |-> copy],
         heap |-> Alloc(h, [i \in {copy[p] : p \in DOMAIN items} |->
                              h[items[CHOOSE p \in DOMAIN items : copy[p] = i]]]),
         next_id |-> nid + 1 + Cardinality(firsts)]

\* crossover with the guard of line 233 left out and the cut drawn from 0..len.
CrossoverAnyCut(parent1, parent2, nid) ==
    IF Len(parent1.items) /= Len(parent2.items)
    THEN {[child1 |-> parent1, child2 |-> parent2, next_id |-> nid]}
    ELSE {[child1 |-> [id |-> nid,
                       items |-> SubSeq(parent1.items, 1, c)
                                 \o SubSeq(parent2.items, c + 1, Len(parent2.items))],
           child2 |-> [id |-> nid + 1,
                       items |-> SubSeq(parent2.items, 1, c)
                                 \o SubSeq(parent1.items, c + 1, Len(parent1.items))],
           next_id |-> nid + 2] : c \in 0..Len(parent1.items)}

\* crossover returning list(parent1), list(parent2) where it cannot cut.
CrossoverCopies(parent1, parent2, nid) ==
    IF Len(parent1.items) /= Len(parent2.items) \/ Len(parent1.items) < 2
    THEN {[child1 |-> [id |-> nid, items |-> parent1.items],
           child2 |-> [id |-> nid + 1, items |-> parent2.items],
           next_id |-> nid + 2]}
    ELSE {[child1 |-> [id |-> nid,
                       items |-> SubSeq(parent1.items, 1, c)
                                 \o SubSeq(parent2.items, c + 1, Len(parent2.items))],
           child2 |-> [id |-> nid + 1,
                       items |-> SubSeq(parent2.items, 1, c)
                                 \o SubSeq(parent1.items, c + 1, Len(parent1.items))],
           next_id |-> nid + 2] : c \in 1..(Len(parent1.items) - 1)}

\* crossover(parent1, parent2): one result per crossover_point random.randint
\* can draw.  parent[:c] are the first c items; a slice and a + build new
\* lists that hold the parents' dicts themselves.
Crossover(parent1, parent2, nid) ==
    IF Len(parent1.items) /= Len(parent2.items)
    THEN {[child1 |-> parent1, child2 |-> parent2, next_id |-> nid]}
    ELSE IF Len(parent1.items) < 2
    THEN {[child1 |-> parent1, child2 |-> parent2, next_id |-> nid]}
    ELSE {[child1 |-> [id |-> nid,
                       items |-> SubSeq(parent1.items, 1, crossover_point)
                                 \o SubSeq(parent2.items, crossover_point + 1,
                                           Len(parent2.items))],
           child2 |-> [id |-> nid + 1,
                       items |-> SubSeq(parent2.items, 1, crossover_point)
                                 \o SubSeq(parent1.items, crossover_point + 1,
                                           Len(parent1.items))],
           next_id |-> nid + 2] : crossover_point \in 1..(Len(parent1.items) - 1)}

MutationTypes == {"instructor", "room", "time"}

\* Lines 251-273 re-rolling the room along with the instructor.
MutateInstructorAndRoom(h, class_to_mutate, mutation_type) ==
    LET class_obj == h[class_to_mutate]
    IN  IF mutation_type = "time" /\ class_obj.duration /= 2 /\ ga.meeting_times = <<>>
        THEN {[heap |-> h, raised |-> TRUE]}
        ELSE {[heap |-> [h EXCEPT ![class_to_mutate] = new], raised |-> FALSE] :
                new \in {c \in InitialClassChoices(class_obj) :
                    CASE mutation_type = "instructor" ->
                           /\ c.meeting_time = class_obj.meeting_time
                           /\ c.consecutive_slots = class_obj.consecutive_slots
                      [] mutation_type = "room" ->
                           /\ c.instructor = class_obj.instructor
                           /\ c.meeting_time = class_obj.meeting_time
                           /\ c.consecutive_slots = class_obj.consecutive_slots
                      [] mutation_type = "time" ->
                           /\ c.instructor = class_obj.instructor
                           /\ c.room = class_obj.room}}

\* MutateField where a lab class that finds no pair of consecutive slots
\* takes any single slot instead of keeping its time.
MutateFieldLabAnySlot(h, class_to_mutate, mutation_type) ==
    LET class_obj == h[class_to_mutate]
    IN  CASE mutation_type = "instructor" ->
               IF InstructorPool(class_obj) /= {}
               THEN {[heap |-> [h EXCEPT ![class_to_mutate].instructor = i],
                      raised |-> FALSE] : i \in InstructorPool(class_obj)}
               ELSE {[heap |-> h, raised |-> FALSE]}
          [] mutation_type = "room" ->
               IF RoomPool(class_obj) /= {}
               THEN {[heap |-> [h EXCEPT ![class_to_mutate].room = r],
                      raised |-> FALSE] : r \in RoomPool(class_obj)}
               ELSE {[heap |-> h, raised |-> FALSE]}
          [] mutation_type = "time" ->
               IF class_obj.duration = 2 /\ FindConsecutiveSlots /= {}
               THEN {[heap |-> [h EXCEPT ![class_to_mutate].meeting_time = slots[1],
                                         ![class_to_mutate].consecutive_slots = slots],
                      raised |-> FALSE] : slots \in FindConsecutiveSlots}
               ELSE (IF ga.meeting_times /= <<>>
                     THEN {[heap |-> [h EXCEPT ![class_to_mutate].meeting_time = t],
                            raised |-> FALSE] : t \in Range(ga.meeting_times)}
                     ELSE {[heap |-> h, raised |-> TRUE]})

\* Lines 251-273: the outcomes of re-rolling one field of the dict
\* class_to_mutate: the heap after it, or the IndexError random.choice raises
\* on an empty sequence.
MutateField(h, class_to_mutate, mutation_type) ==
    LET class_obj == h[class_to_mutate]
    IN  CASE mutation_type = "instructor" ->
               IF InstructorPool(class_obj) /= {}
               THEN {[heap |-> [h EXCEPT ![class_to_mutate].instructor = i],
                      raised |-> FALSE] : i \in InstructorPool(class_obj)}
               ELSE {[heap |-> h, raised |-> FALSE]}
          [] mutation_type = "room" ->
               IF RoomPool(class_obj) /= {}
               THEN {[heap |-> [h EXCEPT ![class_to_mutate].room = r],
                      raised |-> FALSE] : r \in RoomPool(class_obj)}
               ELSE {[heap |-> h, raised |-> FALSE]}
          [] mutation_type = "time" ->
               IF class_obj.duration = 2
               THEN (IF FindConsecutiveSlots /= {}
                     THEN {[heap |-> [h EXCEPT ![class_to_mutate].meeting_time = slots[1],
                                               ![class_to_mutate].consecutive_slots = slots],
                            raised |-> FALSE] : slots \in FindConsecutiveSlots}
                     ELSE {[heap |-> h, raised |-> FALSE]})
               ELSE (IF ga.meeting_times /= <<>>
                     THEN {[heap |-> [h EXCEPT ![class_to_mutate].meeting_time = t],
                            raised |-> FALSE] : t \in Range(ga.meeting_times)}
                     ELSE {[heap |-> h, raised |-> TRUE]})

\* mutate(individual): every outcome of its draws.  random.random() lies in
\* [0, 1), so the test of line 245 can pass when mutation_rate > 0 and can
\* fail when mutation_rate < 1.  The list returned is `individual' itself.
Mutate(h, individual) ==
    (IF ga.mutation_rate.n < ga.mutation_rate.d \/ individual.items = <<>>
     THEN {[heap |-> h, raised |-> FALSE]} ELSE {})
    \cup
    (IF ga.mutation_rate.n > 0 /\ individual.items /= <<>>
     THEN UNION {MutateField(h, class_to_mutate, mutation_type) :
                    class_to_mutate \in Range(individual.items),
                    mutation_type \in MutationTypes}
     ELSE {})

----------------------------------------------------------------------------
(* selection and the elite of evolve *)

TournamentSize == 5

\* random.sample(range(n), k): the lists of k distinct indices.
Samples(n, k) ==
    {sample \in [1..k -> 1..n] : \A i, j \in 1..k : i /= j => sample[i] /= sample[j]}

\* list.index(max(list)): the first position of the greatest fitness.
IndexOfMax(scores) ==
    CHOOSE i \in DOMAIN scores :
        /\ \A j \in DOMAIN scores : RatLeq(scores[j], scores[i])
        /\ \A j \in DOMAIN scores : j < i => RatLess(scores[j], scores[i])

\* TournamentWinner taking the maximal entrant of the lowest population index.
TournamentWinnerLowestIndex(scores, tournament_indices) ==
    LET entrants == Range(tournament_indices)
    IN  CHOOSE w \in entrants :
            /\ \A v \in entrants : RatLeq(scores[v], scores[w])
            /\ \A v \in entrants : RatEq(scores[v], scores[w]) => w <= v

\* Lines 222-223: the winner_index of the draw tournament_indices.
TournamentWinner(scores, tournament_indices) ==
    LET tournament_fitness == [i \in DOMAIN tournament_indices |->
                                  scores[tournament_indices[i]]]
    IN  tournament_indices[IndexOfMax(tournament_fitness)]

\* Lines 220-223: the winner_index values one tournament can yield.
TournamentWinners(scores) ==
    LET n == Len(scores)
    IN  {TournamentWinner(scores, tournament_indices) :
            tournament_indices \in Samples(n, Min(TournamentSize, n))}

\* A list of deep copies of the lists `lists', made in order.  The result
\* is [lists, heap, next_id].
RECURSIVE DeepcopyAll(_, _, _)
DeepcopyAll(h, lists, nid) ==
    IF lists = <<>>
    THEN [lists |-> <<>>, heap |-> h, next_id |-> nid]
    ELSE LET c == Deepcopy(h, Head(lists), nid)
             rest == DeepcopyAll(c.heap, Tail(lists), c.next_id)
         IN  [lists |-> <<c.list>> \o rest.lists, heap |-> rest.heap,
              next_id |-> rest.next_id]

\* int(len(population) * elite_rate) for a rate >= 0.
EliteSize(n) == (n * ga.elite_rate.n) \div ga.elite_rate.d

\* SortedByFitness without reverse=True: ascending fitness.
RECURSIVE SortedByFitnessAscending(_, _)
SortedByFitnessAscending(scores, S) ==
    IF S = {} THEN <<>>
    ELSE LET m == CHOOSE i \in S : \A j \in S :
                     \/ RatLess(scores[i], scores[j])
                     \/ (RatEq(scores[j], scores[i]) /\ i <= j)
         IN  <<m>> \o SortedByFitnessAscending(scores, S \ {m})

\* sorted(range(n), key=fitness, reverse=True): descending fitness, equal
\* fitness in index order (the sort is stable).
RECURSIVE SortedByFitness(_, _)
SortedByFitness(scores, S) ==
    IF S = {} THEN <<>>
    ELSE LET m == CHOOSE i \in S : \A j \in S :
                     \/ RatLess(scores[j], scores[i])
                     \/ (RatEq(scores[j], scores[i]) /\ i <= j)
         IN  <<m>> \o SortedByFitness(scores, S \ {m})

EliteIndices(scores) ==
    SubSeq(SortedByFitness(scores, DOMAIN scores), 1,
           Min(Max(EliteSize(Len(scores)), 0), Len(scores)))

----------------------------------------------------------------------------
(* evolve *)

MaxGenerationsWithoutImprovement == 200

ConvergenceFitness == Rat(90, 1)

EvolveReturned == pc \in {"STALLED", "CONVERGED", "EXHAUSTED"}

\* Lines 279-284: the initial population and the locals.
GenerateInitialPopulation ==
    /\ pc = "evolve"
    /\ \E individuals \in [1..Max(ga.population_size, 0) -> InitialIndividuals] :
          LET n == Len(ga.all_classes)
              base(k) == next_id + (k - 1) * (n + 1)
          IN  /\ population' = [k \in DOMAIN individuals |->
                     [id |-> base(k), items |-> [p \in 1..n |-> base(k) + p]]]
              /\ heap' = Alloc(heap,
                     [i \in UNION {(base(k) + 1)..(base(k) + n) : k \in DOMAIN individuals} |->
                        LET k == CHOOSE k \in DOMAIN individuals :
                                    i \in (base(k) + 1)..(base(k) + n)
                        IN  individuals[k][i - base(k)]])
              /\ next_id' = base(Len(individuals) + 1)
    /\ best_fitness' = Rat(0, 1)
    /\ best_individual' = NoList
    /\ generations_without_improvement' = 0
    /\ generation' = 0
    /\ pc' = "loop"
    /\ UNCHANGED <<db, ga, fitness_scores, selected_population, new_population,
                   parents, children, call>>

\* Line 286, the range exhausted: return at line 342.
Exhausted ==
    /\ pc = "loop"
    /\ generation >= ga.generations
    /\ pc' = "EXHAUSTED"
    /\ UNCHANGED <<db, ga, heap, next_id, evolveVars, call>>

\* Line 291 on an empty population: max() of an empty list raises ValueError.
EvaluateNothing ==
    /\ pc = "loop"
    /\ generation < ga.generations
    /\ population = <<>>
    /\ fitness_scores' = <<>>
    /\ pc' = "raised"
    /\ UNCHANGED <<db, ga, heap, next_id, generation, population, best_fitness,
                   best_individual, generations_without_improvement,
                   selected_population, new_population, parents, children, call>>

\* BestIsFullyAssigned without the all(...) of lines 306-308.
BestIsRetained(h, best) == best /= NoList /\ best.items /= <<>>

\* Lines 306-309: is_fully_assigned; None and the empty list are false.
BestIsFullyAssigned(h, best) ==
    IF best /= NoList /\ best.items /= <<>>
    THEN \A p \in DOMAIN best.items : IsFullyAssigned(h[best.items[p]])
    ELSE FALSE

\* Improves without the comparison: every generation's best is retained.
ImprovesAlways(current_best_fitness, retained) == TRUE

\* Improves with >= for >: an equal fitness replaces the retained best.
ImprovesOrEquals(current_best_fitness, retained) ==
    RatLeq(retained, current_best_fitness)

\* Line 294: current_best_fitness > best_fitness.
Improves(current_best_fitness, retained) ==
    RatLess(retained, current_best_fitness)

\* Lines 286-312: one generation's evaluation, best tracking and stop tests.
Evaluate ==
    /\ pc = "loop"
    /\ generation < ga.generations
    /\ population /= <<>>
    /\ LET scores == [k \in DOMAIN population |->
                         CalculateFitness(Deref(heap, population[k]))]
           current_best_fitness == scores[IndexOfMax(scores)]
           current_best_individual == population[IndexOfMax(scores)]
           improved == Improves(current_best_fitness, best_fitness)
           copy == Deepcopy(heap, current_best_individual, next_id)
           best == IF improved THEN copy.list ELSE best_individual
           h == IF improved THEN copy.heap ELSE heap
           without == IF improved THEN 0 ELSE generations_without_improvement + 1
           is_fully_assigned == BestIsFullyAssigned(h, best)
       IN  /\ fitness_scores' = scores
           /\ best_fitness' = IF improved THEN current_best_fitness ELSE best_fitness
           /\ best_individual' = best
           /\ heap' = h
           /\ next_id' = IF improved THEN copy.next_id ELSE next_id
           /\ generations_without_improvement' = without
           /\ pc' = IF without >= MaxGenerationsWithoutImprovement THEN "STALLED"
                    ELSE IF RatLeq(ConvergenceFitness, best_fitness') /\ is_fully_assigned
                    THEN "CONVERGED"
                    ELSE "selection"
    /\ UNCHANGED <<db, ga, generation, population, selected_population, new_population,
                   parents, children, call>>

\* Line 315: selection(population, fitness_scores).
Selection ==
    /\ pc = "selection"
    /\ \E winner_index \in [DOMAIN population -> TournamentWinners(fitness_scores)] :
          LET selected == DeepcopyAll(heap,
                              [k \in DOMAIN population |-> population[winner_index[k]]],
                              next_id)
          IN  /\ selected_population' = selected.lists
              /\ heap' = selected.heap
              /\ next_id' = selected.next_id
    /\ pc' = "elitism"
    /\ UNCHANGED <<db, ga, generation, population, fitness_scores, best_fitness,
                   best_individual, generations_without_improvement, new_population,
                   parents, children, call>>

\* Lines 318-325: the new generation starts with copies of the elite.
Elitism ==
    /\ pc = "elitism"
    /\ LET elite_indices == EliteIndices(fitness_scores)
           elite == DeepcopyAll(heap,
                        [k \in DOMAIN elite_indices |-> population[elite_indices[k]]],
                        next_id)
       IN  /\ new_population' = elite.lists
           /\ heap' = elite.heap
           /\ next_id' = elite.next_id
    /\ pc' = "reproduce"
    /\ UNCHANGED <<db, ga, generation, population, fitness_scores, best_fitness,
                   best_individual, generations_without_improvement, selected_population,
                   parents, children, call>>

\* Lines 328-332: two parents drawn from the mating pool and crossed.
DrawAndCross ==
    /\ pc = "reproduce"
    /\ Len(new_population) < Len(population)
    /\ \E i \in DOMAIN selected_population, j \in DOMAIN selected_population :
          \E r \in Crossover(selected_population[i], selected_population[j], next_id) :
             /\ parents' = <<selected_population[i], selected_population[j]>>
             /\ children' = <<r.child1, r.child2>>
             /\ next_id' = r.next_id
    /\ pc' = "mutate1"
    /\ UNCHANGED <<db, ga, heap, generation, population, fitness_scores, best_fitness,
                   best_individual, generations_without_improvement, selected_population,
                   new_population, call>>

\* Line 334: child1 = self.mutate(child1).
MutateChild1 ==
    /\ pc = "mutate1"
    /\ \E o \in Mutate(heap, children[1]) :
          /\ heap' = o.heap
          /\ pc' = IF o.raised THEN "raised" ELSE "mutate2"
    /\ UNCHANGED <<db, ga, next_id, evolveVars, call>>

\* Lines 335-337: child2 = self.mutate(child2), then both children are
\* appended to new_population.
MutateChild2 ==
    /\ pc = "mutate2"
    /\ \E o \in Mutate(heap, children[2]) :
          /\ heap' = o.heap
          /\ pc' = IF o.raised THEN "raised" ELSE "reproduce"
          /\ new_population' = IF o.raised THEN new_population
                               ELSE new_population \o children
    /\ UNCHANGED <<db, ga, next_id, generation, population, fitness_scores, best_fitness,
                   best_individual, generations_without_improvement, selected_population,
                   parents, children, call>>

\* The objects (lists and their dicts) reachable from `lists', in the order
\* they are met.
Reachable(lists) ==
    Flatten([k \in DOMAIN lists |->
        IF lists[k] = NoList THEN <<>> ELSE <<lists[k].id>> \o lists[k].items])

\* Object ids are arbitrary: the live objects are renamed 1, 2, ... in the
\* order they are met from `lists', and the others are dropped from the heap.
\* The result is [lists, heap, next_id].
Compact(h, lists) ==
    LET order == Reachable(lists)
        objects == Range(order)
        first == [x \in objects |->
                    LET at == {q \in DOMAIN order : order[q] = x}
                    IN  CHOOSE q \in at : \A r \in at : q <= r]
        firsts == {first[x] : x \in objects}
        name == [x \in objects |-> Cardinality({q \in firsts : q <= first[x]})]
        dicts == UNION {Range(lists[k].items) : k \in DOMAIN lists}
        named == [i \in {name[x] : x \in dicts} |-> CHOOSE x \in dicts : name[x] = i]
    IN  [lists |-> [k \in DOMAIN lists |->
                       IF lists[k] = NoList THEN NoList
                       ELSE [id |-> name[lists[k].id],
                             items |-> [p \in DOMAIN lists[k].items |->
                                           name[lists[k].items[p]]]]],
         heap |-> [i \in DOMAIN named |-> h[named[i]]],
         next_id |-> Cardinality(firsts) + 1]

\* Line 340 and the step of the for loop.  The locals of the finished
\* iteration are all assigned again before they are read, so they are reset
\* here; the dicts no live list holds are freed and the live objects renamed.
Trim ==
    /\ pc = "reproduce"
    /\ Len(new_population) >= Len(population)
    /\ \E live \in {Compact(heap, <<best_individual>>
                                     \o SubSeq(new_population, 1, Len(population)))} :
           /\ best_individual' = Head(live.lists)
           /\ population' = Tail(live.lists)
           /\ heap' = live.heap
           /\ next_id' = live.next_id
    /\ generation' = generation + 1
    /\ fitness_scores' = <<>>
    /\ selected_population' = <<>>
    /\ new_population' = <<>>
    /\ parents' = <<>>
    /\ children' = <<>>
    /\ pc' = "loop"
    /\ UNCHANGED <<db, ga, best_fitness, generations_without_improvement, call>>

MaxPopulation == 2

MaxGenerations == 2

\* The chromosome evaluations of a short run: population_size * generations.
MaxEvaluations == 4

EliteRates == {DefaultEliteRate, Rat(1, 2)}

\* population_size is not validated (views.py line 268): a negative one, zero,
\* and the positive ones up to MaxPopulation.
PopulationSizes == (-1)..MaxPopulation

\* Tables whose individuals are all alike, for the runs long enough to stall.
StallTables == {NoSectionTables, NoStaffTables, SharedTables}

\* The runs: short ones on every table, on the stall tables runs of a single
\* chromosome with a cap past max_generations_without_improvement, one
\* generation of two chromosomes, one of them elite, on CrowdedTables, and two
\* generations of one chromosome on LabNoPairTables and on CrowdedTables.
Runs ==
    {[table |-> t, population_size |-> size[1], elite_rate |-> e, generations |-> size[2]] :
        t \in EvolveTables, e \in EliteRates,
        size \in {ng \in PopulationSizes \X (0..MaxGenerations) :
                     ng[1] * ng[2] <= MaxEvaluations}}
    \cup
    {[table |-> t, population_size |-> 1, elite_rate |-> DefaultEliteRate,
      generations |-> MaxGenerationsWithoutImprovement + 1] : t \in StallTables}
    \cup
    {[table |-> CrowdedTables, population_size |-> 2, elite_rate |-> Rat(1, 2),
      generations |-> 1],
     [table |-> LabNoPairTables, population_size |-> 1, elite_rate |-> DefaultEliteRate,
      generations |-> 2],
     [table |-> CrowdedTables, population_size |-> 1, elite_rate |-> DefaultEliteRate,
      generations |-> 2]}

Init ==
    /\ \E run \in Runs :
          /\ db = run.table
          /\ ga = Request(run.table, run.population_size, run.elite_rate, run.generations)
    /\ pc = "evolve"
    /\ heap = <<>>
    /\ next_id = 1
    /\ IdleEvolve
    /\ call = <<>>

Next ==
    \/ GenerateInitialPopulation
    \/ Exhausted
    \/ EvaluateNothing
    \/ Evaluate
    \/ Selection
    \/ Elitism
    \/ DrawAndCross
    \/ MutateChild1
    \/ MutateChild2
    \/ Trim

Spec == Init /\ [][Next]_vars

----------------------------------------------------------------------------
(* The stop tests on a chromosome large enough to score 90 with a field unset *)

\* Thirteen half-hour slots on Monday, one an hour from 7:00, no two
\* consecutive.
WideSlots ==
    [k \in 1..13 |-> MeetingTimeRow("Monday", Time(6 + k, 0), Time(6 + k, 30), FALSE)]

\* One section with thirteen one-slot classes and a lab class that finds no
\* pair of consecutive slots: one instructor, one room.
WideTables ==
    [Tables({1}, {1}, {}, 1 :> SectionRow(1, 1, 1, <<5, 2>>))
        EXCEPT !.MeetingTime = WideSlots]

\* One individual initialization can make on WideTables: the one-slot class at
\* position p in slot p, the lab class without a time.
WideIndividual ==
    [p \in DOMAIN ga.all_classes |->
        CHOOSE c \in InitialClassChoices(ga.all_classes[p]) :
            c.duration = 1 => c.meeting_time = p]

\* evolve() of one chromosome on WideTables after line 284, the population
\* being <<WideIndividual>>.
InitWide ==
    /\ db = WideTables
    /\ ga = Request(db, 1, DefaultEliteRate, 1)
    /\ pc = "loop"
    /\ population = <<[id |-> 1, items |-> [p \in DOMAIN ga.all_classes |-> p + 1]]>>
    /\ heap = [i \in 2..(Len(ga.all_classes) + 1) |-> WideIndividual[i - 1]]
    /\ next_id = Len(ga.all_classes) + 2
    /\ generation = 0
    /\ fitness_scores = <<>>
    /\ best_fitness = Rat(0, 1)
    /\ best_individual = NoList
    /\ generations_without_improvement = 0
    /\ selected_population = <<>>
    /\ new_population = <<>>
    /\ parents = <<>>
    /\ children = <<>>
    /\ call = <<>>

\* The runs of Spec, and the evaluation of generation 0 of the run on
\* WideTables.
NextStopTests == IF db = WideTables THEN Evaluate ELSE Next

SpecStopTests == (Init \/ InitWide) /\ [][NextStopTests]_vars

----------------------------------------------------------------------------
(* Single calls of calculate_fitness on two individuals of one run *)

DefaultPopulationSize == 50

DefaultGenerations == 500

InitFitness ==
    /\ db \in FitnessTables
    /\ ga = Request(db, DefaultPopulationSize, DefaultEliteRate, DefaultGenerations)
    /\ pc = "calculate_fitness"
    /\ heap = <<>>
    /\ next_id = 1
    /\ IdleEvolve
    /\ \E a \in InitialIndividuals, b \in InitialIndividuals :
          call = [individual1 |-> a, individual2 |-> b,
                  fitness1 |-> Rat(0, 1), fitness2 |-> Rat(0, 1)]

CallCalculateFitness ==
    /\ pc = "calculate_fitness"
    /\ call' = [call EXCEPT !.fitness1 = CalculateFitness(call.individual1),
                            !.fitness2 = CalculateFitness(call.individual2)]
    /\ pc' = "returned"
    /\ UNCHANGED <<db, ga, heap, next_id, evolveVars>>

SpecFitness == InitFitness /\ [][CallCalculateFitness]_vars

----------------------------------------------------------------------------
(* Single calls of _find_consecutive_slots on any table of time slots *)

InitConsecutive ==
    /\ \E slots \in SUBSET (DOMAIN SlotUniverse) :
          db = Tables({1}, {1}, slots, 1 :> SectionRow(1, 1, 1, <<2>>))
    /\ ga = Request(db, DefaultPopulationSize, DefaultEliteRate, DefaultGenerations)
    /\ pc = "_find_consecutive_slots"
    /\ heap = <<>>
    /\ next_id = 1
    /\ IdleEvolve
    /\ call = [consecutive_slots |-> {}]

CallFindConsecutiveSlots ==
    /\ pc = "_find_consecutive_slots"
    /\ call' = [consecutive_slots |-> FindConsecutiveSlots]
    /\ pc' = "returned"
    /\ UNCHANGED <<db, ga, heap, next_id, evolveVars>>

SpecConsecutive == InitConsecutive /\ [][CallFindConsecutiveSlots]_vars

----------------------------------------------------------------------------
(* Single calls of crossover on any two lists of at most MaxGenes dicts *)

MaxGenes == 3

\* The lists of at most MaxGenes dicts: position p holds one of the two dicts
\* p and MaxGenes + p made for it.
GeneLists ==
    UNION {{items \in [1..n -> 1..(2 * MaxGenes)] :
               \A p \in 1..n : items[p] \in {p, MaxGenes + p}} : n \in 0..MaxGenes}

InitCrossover ==
    /\ db = ThreeClassTables
    /\ ga = Request(db, DefaultPopulationSize, DefaultEliteRate, DefaultGenerations)
    /\ pc = "crossover"
    /\ heap = [i \in 1..(2 * MaxGenes) |-> ClassObj(db, 1, 3, (i - 1) % MaxGenes)]
    /\ next_id = 2 * MaxGenes + 3
    /\ IdleEvolve
    /\ \E items1 \in GeneLists, items2 \in GeneLists :
          \E parent1 \in {[id |-> 2 * MaxGenes + 1, items |-> items1]} :
             \E parent2 \in {[id |-> 2 * MaxGenes + 2, items |-> items2], parent1} :
                \* The mating pool holds deep copies (line 224): two parents are
                \* the same list or share no dict.
                /\ parent2 /= parent1 => Range(items1) \cap Range(items2) = {}
                /\ call = [parent1 |-> parent1, parent2 |-> parent2,
                           child1 |-> NoList, child2 |-> NoList, heap |-> heap]

CallCrossover ==
    /\ pc = "crossover"
    /\ \E r \in Crossover(call.parent1, call.parent2, next_id) :
          /\ call' = [call EXCEPT !.child1 = r.child1, !.child2 = r.child2]
          /\ next_id' = r.next_id
    /\ pc' = "returned"
    /\ UNCHANGED <<db, ga, heap, evolveVars>>

SpecCrossover == InitCrossover /\ [][CallCrossover]_vars

----------------------------------------------------------------------------
(* Single calls of mutate on any individual of a run *)

\* Two pairs of consecutive slots for the lab course.
LabTwoPairTables ==
    Tables({1, 2}, {1, 2}, {1, 2, 7, 8}, 1 :> SectionRow(1, 1, 1, <<2, 1>>))

\* Classes with two instructors, two rooms and two slots to choose from.
FreeChoiceTables ==
    Tables({1, 2}, {1, 2}, {1, 2}, 1 :> SectionRow(1, 1, 1, <<3>>))

MutateTables == AllTables \cup {LabTwoPairTables, FreeChoiceTables}

InitMutate ==
    /\ db \in MutateTables
    /\ ga = Request(db, DefaultPopulationSize, DefaultEliteRate, DefaultGenerations)
    /\ pc = "mutate"
    /\ \E ind \in InitialIndividuals :
          /\ heap = [i \in 2..(Len(ind) + 1) |-> ind[i - 1]]
          /\ call = [individual |-> [id |-> 1, items |-> [p \in 1..Len(ind) |-> p + 1]],
                     heap |-> [i \in 2..(Len(ind) + 1) |-> ind[i - 1]],
                     result |-> NoList]
          /\ next_id = Len(ind) + 2
    /\ IdleEvolve

CallMutate ==
    /\ pc = "mutate"
    /\ \E o \in Mutate(heap, call.individual) :
          /\ heap' = o.heap
          /\ pc' = IF o.raised THEN "raised" ELSE "returned"
          /\ call' = [call EXCEPT !.result = IF o.raised THEN NoList ELSE call.individual]
    /\ UNCHANGED <<db, ga, next_id, evolveVars>>

SpecMutate == InitMutate /\ [][CallMutate]_vars

----------------------------------------------------------------------------
(* selection called on its own, one tournament at a time *)

MaxSelection == 3

SelectionTables == {TwoSlotTables, LabTables}

\* The populations selection is called with: every population of at most
\* MaxSelection chromosomes, and one of TournamentSize + 1 chromosomes, a
\* single best one followed by equal ones, so that a draw can leave the best out.
SelectionPopulations ==
    LET best == CHOOSE a \in InitialIndividuals :
                    \A b \in InitialIndividuals :
                        RatLeq(CalculateFitness(b), CalculateFitness(a))
        other == CHOOSE a \in InitialIndividuals :
                    RatLess(CalculateFitness(a), CalculateFitness(best))
    IN  UNION {[1..n -> InitialIndividuals] : n \in 1..MaxSelection}
        \cup {[k \in 1..(TournamentSize + 1) |-> IF k = 1 THEN best ELSE other]}

InitSelection ==
    /\ db \in SelectionTables
    /\ ga = Request(db, DefaultPopulationSize, DefaultEliteRate, DefaultGenerations)
    /\ pc = "selection"
    /\ \E individuals \in SelectionPopulations :
          LET n == Len(ga.all_classes)
              base(k) == 1 + (k - 1) * (n + 1)
          IN  /\ population = [k \in DOMAIN individuals |->
                     [id |-> base(k), items |-> [p \in 1..n |-> base(k) + p]]]
              /\ heap = [i \in UNION {(base(k) + 1)..(base(k) + n) : k \in DOMAIN individuals} |->
                           LET k == CHOOSE k \in DOMAIN individuals :
                                       i \in (base(k) + 1)..(base(k) + n)
                           IN  individuals[k][i - base(k)]]
              /\ next_id = base(Len(individuals) + 1)
              /\ fitness_scores = [k \in DOMAIN individuals |->
                                      CalculateFitness(individuals[k])]
    /\ generation = 0
    /\ best_fitness = Rat(0, 1)
    /\ best_individual = NoList
    /\ generations_without_improvement = 0
    /\ selected_population = <<>>
    /\ new_population = <<>>
    /\ parents = <<>>
    /\ children = <<>>
    /\ call = [tournament_indices |-> <<>>]

\* Lines 219-221: the draw of one tournament, kept in `call' until its winner
\* is copied.
DrawTournament ==
    /\ pc = "selection"
    /\ Len(selected_population) < Len(population)
    /\ \E tournament_indices \in Samples(Len(population),
                                         Min(TournamentSize, Len(population))) :
          call' = [tournament_indices |-> tournament_indices]
    /\ pc' = "tournament"
    /\ UNCHANGED <<db, ga, heap, next_id, evolveVars>>

\* Lines 222-224: the winner of the draw is copied into selected.
CopyWinner ==
    /\ pc = "tournament"
    /\ LET winner_index == TournamentWinner(fitness_scores, call.tournament_indices)
           copy == Deepcopy(heap, population[winner_index], next_id)
       IN  /\ selected_population' = Append(selected_population, copy.list)
           /\ heap' = copy.heap
           /\ next_id' = copy.next_id
    /\ call' = [tournament_indices |-> <<>>]
    /\ pc' = "selection"
    /\ UNCHANGED <<db, ga, generation, population, fitness_scores, best_fitness,
                   best_individual, generations_without_improvement, new_population,
                   parents, children>>

\* Line 226: return selected.
SelectionReturns ==
    /\ pc = "selection"
    /\ Len(selected_population) = Len(population)
    /\ pc' = "returned"
    /\ UNCHANGED <<db, ga, heap, next_id, evolveVars, call>>

NextSelection == DrawTournament \/ CopyWinner \/ SelectionReturns

SpecSelection == InitSelection /\ [][NextSelection]_vars

----------------------------------------------------------------------------
(* Claims about calculate_fitness, checked under SpecFitness *)

Returned == pc = "returned"

\* C5: for every chromosome, calculate_fitness returns a value f with
\* 0 <= f <= 100.
C5_FitnessBounds ==
    Returned =>
        /\ RatLeq(Rat(0, 1), call.fitness1)
        /\ RatLeq(call.fitness1, Rat(100, 1))

\* C5 witness: a returned fitness of a chromosome whose penalties exceed the
\* maximum (the clamp at 0), and one strictly between 0 and 100 exist; this is
\* the clamped one.
C5_Witness ==
    /\ Returned
    /\ UnassignedPenalty(call.individual1) > 0
    /\ Len(call.individual1) >= 2
    /\ call.fitness1 = Rat(0, 3)

\* C6: of two fully assigned chromosomes over the same requirement list of
\* size >= 2, the second with exactly one more conflicting pair than the
\* first, the second has the strictly lower fitness.
C6_MonotonicPenalty ==
    ( /\ Returned
      /\ Len(call.individual1) >= 2
      /\ \A p \in DOMAIN call.individual1 :
            /\ IsFullyAssigned(call.individual1[p])
            /\ IsFullyAssigned(call.individual2[p])
            /\ call.individual1[p].id = call.individual2[p].id
      /\ Conflicts(call.individual2) = Conflicts(call.individual1) + 1 )
    => RatLess(call.fitness2, call.fitness1)

\* C6 witness: two fully assigned chromosomes of three classes with two and
\* three conflicting pairs have been scored.
C6_Witness ==
    /\ Returned
    /\ Len(call.individual1) = 3
    /\ \A p \in DOMAIN call.individual1 :
          IsFullyAssigned(call.individual1[p]) /\ IsFullyAssigned(call.individual2[p])
    /\ Conflicts(call.individual1) = 2
    /\ Conflicts(call.individual2) = 3

\* C7 as claimed: calculate_fitness returns exactly 100 for every chromosome
\* with zero unassigned Assignments and zero conflicting pairs.
C7_PerfectScoreAnyLength ==
    ( /\ Returned
      /\ UnassignedPenalty(call.individual1) = 0
      /\ Conflicts(call.individual1) = 0 )
    => RatEq(call.fitness1, Rat(100, 1))

\* C7 amended: calculate_fitness returns exactly 100 for every chromosome
\* with at least one Assignment, zero unassigned Assignments and zero
\* conflicting pairs (the chromosome of zero requirements scores 0).
C7_PerfectScore ==
    ( /\ Returned
      /\ Len(call.individual1) >= 1
      /\ UnassignedPenalty(call.individual1) = 0
      /\ Conflicts(call.individual1) = 0 )
    => RatEq(call.fitness1, Rat(100, 1))

\* C7 witness: a fully assigned, conflict-free chromosome of three classes has
\* been scored.
C7_Witness ==
    /\ Returned
    /\ Len(call.individual1) = 3
    /\ UnassignedPenalty(call.individual1) = 0
    /\ Conflicts(call.individual1) = 0

----------------------------------------------------------------------------
(* Claims about _find_consecutive_slots, checked under SpecConsecutive *)

\* C10: every pair (a, b) returned by _find_consecutive_slots consists of two
\* non-break time slots of the same day with a.end == b.start, and it is not
\* the case that a.start.hour <= 13 and b.end.hour >= 14.
C10_ConsecutiveSlotValidity ==
    Returned =>
        \A slots \in call.consecutive_slots :
            LET a == db.MeetingTime[slots[1]]
                b == db.MeetingTime[slots[2]]
            IN  /\ Len(slots) = 2
                /\ ~a.is_lunch_break /\ ~b.is_lunch_break
                /\ a.day = b.day
                /\ a.end_time = b.start_time
                /\ ~(a.start_time \div 60 <= 13 /\ b.end_time \div 60 >= 14)

\* C10 witness: with the slots 12-13, 13-14 and 14-15 of one day in the table
\* (two back-to-back pairs across lunch) and 9-10, 10-11, the call has
\* returned the morning pair.
C10_Witness ==
    /\ Returned
    /\ {1, 2, 3, 4, 6} \subseteq DOMAIN db.MeetingTime
    /\ 9 \notin DOMAIN db.MeetingTime
    /\ <<1, 2>> \in call.consecutive_slots

----------------------------------------------------------------------------
(* Claims about crossover, checked under SpecCrossover *)

\* C8: for parents of equal length L >= 2, crossover returns two children of
\* length L and there is one cut point c, 1 <= c <= L-1, such that child1
\* takes its first c genes from parent1 and the rest from parent2, and child2
\* its first c genes from parent2 and the rest from parent1; each child's gene
\* at a position is the gene at that position of exactly one parent.
C8_CrossoverSinglePoint ==
    LET p1 == call.parent1.items
        p2 == call.parent2.items
        c1 == call.child1.items
        c2 == call.child2.items
        L == Len(p1)
    IN  (Returned /\ Len(p1) = Len(p2) /\ L >= 2) =>
            /\ Len(c1) = L
            /\ Len(c2) = L
            /\ \E c \in 1..(L - 1) :
                  \A p \in 1..L :
                     /\ c1[p] = IF p <= c THEN p1[p] ELSE p2[p]
                     /\ c2[p] = IF p <= c THEN p2[p] ELSE p1[p]
            /\ \A p \in 1..L :
                  \A child \in {call.child1, call.child2} :
                     Cardinality({parent \in {call.parent1, call.parent2} :
                                     parent.items[p] = child.items[p]}) = 1

\* C8 witness: two different parents of three genes, differing at every
\* position, have been crossed.
C8_Witness ==
    /\ Returned
    /\ Len(call.parent1.items) = 3
    /\ Len(call.parent2.items) = 3
    /\ \A p \in 1..3 : call.parent1.items[p] /= call.parent2.items[p]
    /\ call.child1.items = <<call.parent1.items[1], call.parent1.items[2],
                             call.parent2.items[3]>>

\* C9: when the parents have different lengths, or length < 2, crossover
\* returns the two parents themselves, in the same order and unchanged (the
\* same list objects, holding the same dicts in the same state).
C9_CrossoverNoOp ==
    ( /\ Returned
      /\ \/ Len(call.parent1.items) /= Len(call.parent2.items)
         \/ Len(call.parent1.items) < 2 )
    => /\ call.child1 = call.parent1
       /\ call.child2 = call.parent2
       /\ heap = call.heap

\* C9 witness: crossover has returned for parents of lengths 3 and 2, and for
\* this state the children are the parents.
C9_Witness ==
    /\ Returned
    /\ Len(call.parent1.items) = 3
    /\ Len(call.parent2.items) = 2
    /\ call.child1.id = call.parent1.id
    /\ call.child2.id = call.parent2.id

----------------------------------------------------------------------------
(* Claims about mutate, checked under SpecMutate *)

\* The field groups of an Assignment that differ between two of its states.
ChangedFields(before, after) ==
    {f \in MutationTypes :
        CASE f = "instructor" -> before.instructor /= after.instructor
          [] f = "room" -> before.room /= after.room
          [] f = "time" -> \/ before.meeting_time /= after.meeting_time
                           \/ before.consecutive_slots /= after.consecutive_slots}

\* C4: one call of mutate() changes at most one of the fields instructor, room
\* and time (meeting_time together with consecutive_slots) of at most one
\* Assignment of its chromosome; every other Assignment and the other fields
\* of the chosen one are unchanged.
C4_MutationLocality ==
    (pc \in {"returned", "raised"}) =>
        /\ DOMAIN heap = DOMAIN call.heap
        /\ Cardinality({i \in DOMAIN heap : heap[i] /= call.heap[i]}) <= 1
        /\ \A i \in DOMAIN heap :
              /\ Cardinality(ChangedFields(call.heap[i], heap[i])) <= 1
              /\ heap[i].id = call.heap[i].id
              /\ heap[i].course = call.heap[i].course
              /\ heap[i].section = call.heap[i].section
              /\ heap[i].duration = call.heap[i].duration

\* C4 witness: mutate has returned after moving a two-slot class to another
\* pair of consecutive slots (meeting_time and consecutive_slots both changed).
C4_Witness ==
    /\ Returned
    /\ \E i \in DOMAIN heap :
          /\ heap[i].duration = 2
          /\ heap[i].meeting_time /= call.heap[i].meeting_time
          /\ heap[i].consecutive_slots /= call.heap[i].consecutive_slots
          /\ heap[i].meeting_time = heap[i].consecutive_slots[1]

----------------------------------------------------------------------------
(* evolve: termination, the returned pair, ownership of Assignments *)

\* C1: for every snapshot of the tables and every population_size >= 1,
\* evolve() raises no exception and runs at most `generations' iterations of
\* the generation loop.
C1_EvolveReturnsNormally ==
    ga.population_size >= 1 =>
        /\ pc /= "raised"
        /\ generation <= Max(ga.generations, 0)

\* C2: when evolve() returns after evaluating at least one generation of a
\* non-empty population, the returned chromosome is a chromosome (not None)
\* with one Assignment per required class, and the returned fitness is its
\* fitness.
C2_ReturnsChromosome ==
    (/\ EvolveReturned
     /\ population /= <<>>
     /\ (pc \in {"STALLED", "CONVERGED"} \/ generation >= 1)) =>
        /\ best_individual /= NoList
        /\ Len(best_individual.items) = Len(ga.all_classes)
        /\ RatEq(best_fitness, CalculateFitness(Deref(heap, best_individual)))

\* C3: a mutation applied to one child changes no Assignment of its sibling,
\* of a chromosome already appended to the next generation, or of a member
\* of the mating pool.
C3_NoSharedAssignments ==
    [][(pc \in {"mutate1", "mutate2"}) =>
          (LET sibling == IF pc = "mutate1" THEN children[2] ELSE children[1]
               pool == <<sibling>> \o new_population \o selected_population
           IN  \A k \in DOMAIN pool : Deref(heap', pool[k]) = Deref(heap, pool[k]))
      ]_vars

----------------------------------------------------------------------------
(* evolve on degenerate and tiny catalogs *)

\* The generations evaluated so far by the running or finished evolve().
EvaluatedGenerations ==
    IF pc \in {"loop", "evolve", "EXHAUSTED"} THEN generation ELSE generation + 1

\* C11: when no section matches the filter and population_size >= 1, evolve()
\* raises nothing; every evaluated chromosome is empty and scores 0, no
\* generation counts as an improvement, and the run stops after
\* min(generations, 200) evaluated generations returning fitness 0.
C11_ZeroRequirements ==
    (ga.all_classes = <<>> /\ ga.population_size >= 1) =>
        /\ pc /= "raised"
        /\ \A k \in DOMAIN population : population[k].items = <<>>
        /\ \A k \in DOMAIN fitness_scores : RatEq(fitness_scores[k], Rat(0, 1))
        /\ generations_without_improvement = EvaluatedGenerations
        /\ RatEq(best_fitness, Rat(0, 1))
        /\ EvaluatedGenerations
             <= Min(Max(ga.generations, 0), MaxGenerationsWithoutImprovement)
        /\ EvolveReturned =>
              EvaluatedGenerations
                = Min(Max(ga.generations, 0), MaxGenerationsWithoutImprovement)

\* C11 witness: a run over zero requirements with a cap of 201 generations has
\* stopped in the 200th evaluated generation.
C11_Witness ==
    /\ ga.all_classes = <<>>
    /\ ga.population_size >= 1
    /\ ga.generations > MaxGenerationsWithoutImprovement
    /\ pc = "STALLED"
    /\ generation = MaxGenerationsWithoutImprovement - 1
    /\ Len(population) = ga.population_size

\* A run on SingleTables with a well-formed configuration.
SingleRun == db = SingleTables /\ ga.population_size >= 1 /\ ga.generations >= 1

\* C12: with 1 section, 1 course (duration 1, 1 session per week), 1 available
\* instructor, 1 available room and 1 non-break slot (population_size >= 1,
\* generations >= 1), every chromosome of the initial population is fully
\* assigned and conflict-free with fitness 100, and evolve() stops as
\* CONVERGED in generation 0 without running selection or reproduction.
C12_SingleCombinationConverges ==
    SingleRun =>
        /\ pc \in {"evolve", "loop", "CONVERGED"}
        /\ generation = 0
        /\ selected_population = <<>> /\ new_population = <<>>
        /\ pc /= "evolve" =>
              /\ Len(population) = ga.population_size
              /\ \A k \in DOMAIN population :
                    LET individual == Deref(heap, population[k])
                    IN  /\ Len(individual) = 1
                        /\ UnassignedPenalty(individual) = 0
                        /\ Conflicts(individual) = 0
                        /\ RatEq(CalculateFitness(individual), Rat(100, 1))
        /\ pc = "CONVERGED" =>
              /\ RatEq(best_fitness, Rat(100, 1))
              /\ \A k \in DOMAIN fitness_scores : RatEq(fitness_scores[k], Rat(100, 1))

\* C12 witness: the run of two chromosomes on SingleTables has stopped as
\* CONVERGED.
C12_Witness ==
    /\ SingleRun
    /\ pc = "CONVERGED"
    /\ Len(population) = 2
    /\ Len(fitness_scores) = 2

\* A run on SharedTables with a well-formed configuration.
SharedRun == db = SharedTables /\ ga.population_size >= 1 /\ ga.generations >= 1

\* Every chromosome the run holds: the population, the mating pool, the next
\* generation under construction and the two children.
HeldChromosomes ==
    Range(population) \cup Range(selected_population) \cup Range(new_population)
        \cup Range(children)

\* C13: with 2 sections each needing one duration-1 session and only one
\* available instructor, one room and one non-break slot, every chromosome in
\* every generation is fully assigned with exactly one conflicting pair
\* (penalty 1, max_penalty 3, fitness (1 - 1/3) * 100), the best fitness is the
\* same in every generation, and the run never stops as CONVERGED.
C13_SharedResourcesStable ==
    SharedRun =>
        /\ pc \notin {"CONVERGED", "raised"}
        /\ \A chromosome \in HeldChromosomes :
              LET individual == Deref(heap, chromosome)
              IN  /\ Len(individual) = 2
                  /\ UnassignedPenalty(individual) = 0
                  /\ Conflicts(individual) = 1
                  /\ CalculateFitness(individual) = Rat(200, 3)
        /\ \A k \in DOMAIN fitness_scores : fitness_scores[k] = Rat(200, 3)
        /\ EvaluatedGenerations >= 1 =>
              /\ best_fitness = Rat(200, 3)
              /\ generations_without_improvement = EvaluatedGenerations - 1

\* C13 witness: the second generation of two chromosomes on SharedTables has
\* been evaluated and the run goes on to selection.
C13_Witness ==
    /\ SharedRun
    /\ pc = "selection"
    /\ generation = 1
    /\ Len(population) = 2
    /\ fitness_scores = <<Rat(200, 3), Rat(200, 3)>>

----------------------------------------------------------------------------
(* Claims about the conflict count and the penalty, checked under SpecFitness *)

\* The time range the claim gives an Assignment: its slot, or for a duration-2
\* Assignment the span from the start of its first to the end of its second
\* consecutive slot.
AssignmentSpan(a) ==
    IF a.duration = 2
    THEN <<db.MeetingTime[a.consecutive_slots[1]].start_time,
           db.MeetingTime[a.consecutive_slots[2]].end_time>>
    ELSE <<db.MeetingTime[a.meeting_time].start_time,
           db.MeetingTime[a.meeting_time].end_time>>

\* The unordered pairs of positions the claim counts.
ConflictingPairs(individual) ==
    {ij \in (DOMAIN individual) \X (DOMAIN individual) :
        LET a == individual[ij[1]]
            b == individual[ij[2]]
        IN  /\ ij[1] < ij[2]
            /\ a.instructor /= None /\ a.room /= None /\ a.meeting_time /= None
            /\ b.instructor /= None /\ b.room /= None /\ b.meeting_time /= None
            /\ db.MeetingTime[a.meeting_time].day = db.MeetingTime[b.meeting_time].day
            /\ Max(AssignmentSpan(a)[1], AssignmentSpan(b)[1])
                 < Min(AssignmentSpan(a)[2], AssignmentSpan(b)[2])
            /\ \/ a.instructor = b.instructor
               \/ a.room = b.room
               \/ a.section = b.section}

\* C14: the conflict count used by calculate_fitness equals the number of
\* unordered pairs of fully assigned Assignments on the same day whose time
\* ranges overlap under max(start1, start2) < min(end1, end2) (a duration-2
\* Assignment spanning both its slots) and that share the instructor, the
\* room or the section; Assignments with an unset field are in no pair.
C14_ConflictCount ==
    Returned =>
        /\ Conflicts(call.individual1) = Cardinality(ConflictingPairs(call.individual1))
        /\ Len(call.individual1) >= 1 =>
              call.fitness1 = FitnessOfPenalties(Len(call.individual1),
                                  Cardinality(ConflictingPairs(call.individual1)),
                                  UnassignedPenalty(call.individual1))

\* C14 witness: a scored chromosome holding a two-slot Assignment and a
\* one-slot Assignment in the second of its slots, which is its one
\* conflicting pair.
C14_Witness ==
    /\ Returned
    /\ \E i, j \in DOMAIN call.individual1 :
          /\ call.individual1[i].duration = 2
          /\ IsFullyAssigned(call.individual1[i])
          /\ IsFullyAssigned(call.individual1[j])
          /\ call.individual1[j].duration = 1
          /\ call.individual1[j].meeting_time = call.individual1[i].consecutive_slots[2]
    /\ Conflicts(call.individual1) = 1

\* C15: for every chromosome with total >= 1 requirements,
\* max_penalty = total * (total - 1) / 2 + total is the worst case of the
\* penalty: penalty = conflicts + 10 * unassigned never exceeds max_penalty,
\* and the chromosome with every slot unassigned has penalty equal to
\* max_penalty.
C15_MaxPenaltyIsWorstCase ==
    (Returned /\ Len(call.individual1) >= 1) =>
        LET total == Len(call.individual1)
            penalty == TotalPenalties(Conflicts(call.individual1),
                                      UnassignedPenalty(call.individual1))
        IN  /\ penalty <= MaxPossiblePenalties(total)
            /\ UnassignedPenalty(call.individual1) = total =>
                  penalty = MaxPossiblePenalties(total)

----------------------------------------------------------------------------
(* Claims about selection, checked under SpecSelection *)

\* The entrants of the draw in `call' with the maximum fitness among them.
MaximalEntrants ==
    LET entrants == Range(call.tournament_indices)
    IN  {v \in entrants : \A u \in entrants : RatLeq(fitness_scores[u], fitness_scores[v])}

\* The chromosome appended by this step is an independent copy of
\* population[w]: a new list of new dicts, equal to the dicts of population[w].
AppendsCopyOf(w) ==
    LET copy == selected_population'[Len(selected_population')]
        old == Range(population) \cup Range(selected_population)
    IN  /\ Len(selected_population') = Len(selected_population) + 1
        /\ SubSeq(selected_population', 1, Len(selected_population)) = selected_population
        /\ copy.id \notin {c.id : c \in old}
        /\ Range(copy.items) \cap DOMAIN heap = {}
        /\ Cardinality(Range(copy.items)) = Len(copy.items)
        /\ Deref(heap', copy) = Deref(heap, population[w])
        /\ \A c \in old : Deref(heap', c) = Deref(heap, c)

\* The draw in `call' holds min(5, N) distinct entrants.
DrawIsSample ==
    /\ Len(call.tournament_indices) = Min(5, Len(population))
    /\ Cardinality(Range(call.tournament_indices)) = Len(call.tournament_indices)
    /\ Range(call.tournament_indices) \subseteq DOMAIN population

----------------------------------------------------------------------------
(* Claims about the stop tests of evolve, checked under Spec *)

\* The step that evaluates a generation.
EvaluatesGeneration == pc = "loop" /\ pc' \in {"selection", "STALLED", "CONVERGED"}

\* The greatest of the fitness scores of the generation just evaluated.
GenerationBest ==
    CHOOSE f \in Range(fitness_scores') : \A g \in Range(fitness_scores') : RatLeq(g, f)

\* C17: in every generation the stall counter is reset to 0 when the
\* generation's best strictly improves on the retained best fitness and
\* incremented otherwise (so it counts the consecutive generations evaluated
\* since the last strict improvement), the retained best fitness never
\* decreases, and the run stops as STALLED at the first generation where the
\* counter reaches 200.
C17_StallCounter ==
    /\ [](/\ generations_without_improvement <= 200
          /\ generations_without_improvement <= EvaluatedGenerations
          /\ generations_without_improvement = 200 <=> pc = "STALLED")
    /\ [][/\ RatLeq(best_fitness, best_fitness')
          /\ EvaluatesGeneration =>
                IF RatLess(best_fitness, GenerationBest)
                THEN /\ generations_without_improvement' = 0
                     /\ best_fitness' = GenerationBest
                ELSE /\ generations_without_improvement'
                          = generations_without_improvement + 1
                     /\ best_fitness' = best_fitness
          /\ ~EvaluatesGeneration =>
                \/ pc = "evolve"
                \/ UNCHANGED <<generations_without_improvement, best_fitness>>]_vars

\* C17 witness: a run whose first generation improved on 0 has stopped as
\* STALLED in generation 200, after 200 generations without improvement.
C17_Witness ==
    /\ pc = "STALLED"
    /\ generation = 200
    /\ generations_without_improvement = 200
    /\ RatLess(Rat(0, 1), best_fitness)

\* The retained best has fitness >= 90 and instructor, room and time set on
\* every Assignment.
RetainedBestIsComplete ==
    /\ best_individual /= NoList
    /\ RatLeq(Rat(90, 1), best_fitness)
    /\ \A p \in DOMAIN best_individual.items :
          LET a == heap[best_individual.items[p]]
          IN  a.instructor /= None /\ a.room /= None /\ a.meeting_time /= None

\* C18: evolve() stops as CONVERGED at the first generation in which the
\* retained best has fitness >= 90 and has instructor, room and time set on
\* every Assignment, with no selection or reproduction in that generation; it
\* never stops as CONVERGED while the retained best is below 90 or has an
\* unset field.
C18_ConvergedIffComplete ==
    /\ RetainedBestIsComplete <=> pc = "CONVERGED"
    /\ pc = "CONVERGED" => selected_population = <<>> /\ new_population = <<>>

\* C18 witness: generation 0 of the fourteen-class chromosome has been
\* evaluated, the retained best scores at least 90 with the lab class's time
\* unset, and the run goes on to selection.
C18_Witness ==
    /\ db = WideTables
    /\ pc = "selection"
    /\ RatLeq(Rat(90, 1), best_fitness)
    /\ best_individual /= NoList
    /\ \E p \in DOMAIN best_individual.items :
          heap[best_individual.items[p]].meeting_time = None

\* C19: when evolve() stops because the generation counter reached
\* `generations', no population has been produced that was never
\* fitness-evaluated: the returned best is at least as fit as every chromosome
\* of the population the run ends with (generations >= 1).
C19_ExhaustedBestCoversPopulation ==
    (pc = "EXHAUSTED" /\ ga.generations >= 1) =>
        \A k \in DOMAIN population :
            RatLeq(CalculateFitness(Deref(heap, population[k])), best_fitness)

----------------------------------------------------------------------------
(* Claims about elitism, checked under Spec *)

\* floor(population_size * elite_rate), at most the whole population.
EliteCount ==
    Min(Len(population), (Len(population) * ga.elite_rate.n) \div ga.elite_rate.d)

\* The index of the chromosome of rank k (1 the best) of the current
\* population: descending fitness, ties by lower index first.
Ranked(k) ==
    CHOOSE i \in DOMAIN fitness_scores :
        Cardinality({j \in DOMAIN fitness_scores :
            \/ RatLess(fitness_scores[i], fitness_scores[j])
            \/ (RatEq(fitness_scores[i], fitness_scores[j]) /\ j < i)}) = k - 1

\* The greatest fitness among the chromosomes `lists' held in heap h.
BestFitnessOf(h, lists) ==
    LET scores == {CalculateFitness(Deref(h, lists[k])) : k \in DOMAIN lists}
    IN  CHOOSE f \in scores : \A g \in scores : RatLeq(g, f)

\* C20: in every generation that continues to reproduction, the next
\* population holds unchanged copies of the top floor(population_size *
\* elite_rate) chromosomes of the current one (descending fitness, ties by
\* lower index first), untouched by the generation's crossover, mutation and
\* truncation; whenever that count is >= 1 the best fitness of generation
\* g + 1 is not lower than the best fitness of generation g.
C20_ElitesCarriedOver ==
    [][(pc = "reproduce" /\ pc' = "loop") =>
          /\ Len(population') = Len(population)
          /\ \A k \in 1..EliteCount :
                /\ Deref(heap', population'[k]) = Deref(heap, population[Ranked(k)])
                /\ CalculateFitness(Deref(heap', population'[k]))
                      = fitness_scores[Ranked(k)]
                /\ \A j \in DOMAIN population' :
                      j /= k => /\ population'[j].id /= population'[k].id
                                /\ Range(population'[j].items)
                                      \cap Range(population'[k].items) = {}
          /\ EliteCount >= 1 =>
                RatLeq(BestFitnessOf(heap, population), BestFitnessOf(heap', population'))
      ]_vars

\* C20 witness: generation 1 of a run of two chromosomes with elite_rate 1/2
\* holds the copy of the better chromosome of generation 0 and a child that
\* scores lower.
C20_Witness ==
    /\ pc = "loop"
    /\ generation = 1
    /\ ga.elite_rate = Rat(1, 2)
    /\ Len(population) = 2
    /\ RatLess(CalculateFitness(Deref(heap, population[2])),
               CalculateFitness(Deref(heap, population[1])))
    /\ RatEq(CalculateFitness(Deref(heap, population[1])), best_fitness)

----------------------------------------------------------------------------
(* evolve with a malformed configuration *)

\* population_size <= 0 or generations = 0.
Malformed == ga.population_size <= 0 \/ ga.generations = 0

\* C21: with a malformed configuration (population_size <= 0, or
\* generations = 0) evolve() raises no error: it runs on an empty population
\* or skips the loop, and what it returns is the pair (best_individual,
\* best_fitness) of line 342.
C21_MalformedDegradesSilently ==
    Malformed =>
        /\ pc /= "raised"
        /\ Len(population) = Max(ga.population_size, 0) \/ pc = "evolve"
        /\ ga.generations = 0 => pc \in {"evolve", "loop", "EXHAUSTED"}

----------------------------------------------------------------------------
(* Which fields of a chromosome are set *)

Fields == {"instructor", "room", "meeting_time"}

\* Lines 58-90: whether initialization sets the field of the dict made of the
\* requirement class_obj: the instructor and the room when the primary or the
\* fallback pool has a member, the time of a lab class when there is a pair
\* of consecutive slots, the time of another class when there is a slot.
InitializationSets(class_obj, field) ==
    CASE field = "instructor" -> InstructorPool(class_obj) /= {}
      [] field = "room" -> RoomPool(class_obj) /= {}
      [] field = "meeting_time" ->
            IF class_obj.duration = 2 THEN FindConsecutiveSlots /= {}
            ELSE ga.meeting_times /= <<>>

\* The requirements initialization leaves with a field unset.
UnassignedRequirements ==
    {p \in DOMAIN ga.all_classes :
        \E field \in Fields : ~InitializationSets(ga.all_classes[p], field)}

\* Every chromosome evolve() holds: the populations, the children and the
\* retained best.
AllChromosomes == HeldChromosomes \cup ({best_individual} \ {NoList})

\* C22: for a fixed snapshot, whether a field (instructor, room, time) of the
\* Assignment at a position is set is the same in every chromosome of every
\* generation, namely what initialization decides from the pools of the
\* requirement at that position; crossover and mutation neither set an unset
\* field nor unset a set one, so the unassigned count of every chromosome is
\* the same over the whole run and a fully assigned chromosome stays so.
C22_AssignedFieldsFixed ==
    \A list \in AllChromosomes :
        /\ DOMAIN list.items = DOMAIN ga.all_classes
        /\ \A p \in DOMAIN list.items, field \in Fields :
              (heap[list.items[p]][field] /= None)
                 <=> InitializationSets(ga.all_classes[p], field)
        /\ UnassignedPenalty(Deref(heap, list)) = Cardinality(UnassignedRequirements)

\* On LabNoPairTables, a child appended to the next generation whose lab
\* class has no time and whose theory class has left the slot it has in the
\* one chromosome of the current generation: a mutation of type time has
\* acted.
C22_Witness ==
    /\ db = LabNoPairTables
    /\ pc = "reproduce"
    /\ new_population /= <<>>
    /\ \E p, q \in DOMAIN new_population[1].items :
          /\ heap[new_population[1].items[p]].duration = 2
          /\ heap[new_population[1].items[p]].meeting_time = None
          /\ heap[new_population[1].items[q]].duration = 1
          /\ heap[new_population[1].items[q]].meeting_time /= None
          /\ heap[new_population[1].items[q]].meeting_time
                /= heap[population[1].items[q]].meeting_time

----------------------------------------------------------------------------
(* The retained best of evolve *)

\* The greatest fitness of the chromosomes of the current population.
PopulationBest ==
    LET scores == {CalculateFitness(Deref(heap, population[k])) : k \in DOMAIN population}
    IN  CHOOSE f \in scores : \A g \in scores : RatLeq(g, f)

\* The greater of two fitness values.
RatMax(a, b) == IF RatLess(a, b) THEN b ELSE a

\* C23: once a best has been retained, at every point of evolve() and at
\* return, the retained fitness is calculate_fitness of the retained
\* chromosome and the maximum fitness over all chromosomes evaluated so far
\* (it is 0 before any is retained, each evaluated generation raises it to
\* the greater of itself and that generation's best, and nothing else changes
\* it); selection, crossover, mutation and the trim never alter the retained
\* chromosome.
C23_RetainedBestIsMaximum ==
    /\ [](/\ best_individual = NoList => RatEq(best_fitness, Rat(0, 1))
          /\ best_individual /= NoList =>
                /\ RatLess(Rat(0, 1), best_fitness)
                /\ RatEq(best_fitness, CalculateFitness(Deref(heap, best_individual))))
    /\ [][/\ EvaluatesGeneration =>
                /\ RatEq(best_fitness', RatMax(best_fitness, PopulationBest))
                /\ (best_individual /= NoList /\ RatLeq(PopulationBest, best_fitness)) =>
                      /\ best_individual' /= NoList
                      /\ Deref(heap', best_individual') = Deref(heap, best_individual)
          /\ (~EvaluatesGeneration /\ pc /= "evolve") =>
                /\ RatEq(best_fitness', best_fitness)
                /\ best_individual = NoList <=> best_individual' = NoList
                /\ best_individual /= NoList =>
                      Deref(heap', best_individual') = Deref(heap, best_individual)
         ]_vars

\* The second generation has been evaluated and its one chromosome, changed
\* by a mutation, scores less than the best retained from the first.
C23_Witness ==
    /\ pc = "selection"
    /\ generation = 1
    /\ best_individual /= NoList
    /\ Deref(heap, population[1]) /= Deref(heap, best_individual)
    /\ RatLess(CalculateFitness(Deref(heap, population[1])), best_fitness)
    /\ RatEq(best_fitness, CalculateFitness(Deref(heap, best_individual)))

----------------------------------------------------------------------------
(* views.py: the generate and activate requests of TimetableViewSet *)

MaxTimetables == 3

\* Two departments with sections in year 1, semester 1.
TimetableCatalog == TwoSlotTables

\* The departments a generate request names.
RequestDepartments == {1, 2}

\* A row of models.py Timetable; `classes' is the number of Class rows
\* attached to it.
TimetableRow(department, year, semester, fitness, is_active, classes) ==
    [department |-> department, year |-> year, semester |-> semester,
     fitness |-> fitness, is_active |-> is_active, classes |-> classes]

\* Lines 298-333: the Class rows made of best_solution, none for a dict with
\* a field that is None, one per slot for a lab dict with consecutive slots.
ClassRows(best_solution) ==
    {<<p, i>> \in (DOMAIN best_solution) \X {1, 2} :
        /\ IsFullyAssigned(best_solution[p])
        /\ i <= (IF best_solution[p].duration = 2
                    /\ best_solution[p].consecutive_slots /= <<>>
                 THEN Len(best_solution[p].consecutive_slots) ELSE 1)}

\* IntegerField.get_prep_value: int(value) of the float fitness.
StoredFitness(fitness) == fitness.n \div fitness.d

\* Line 338: fitness >= 80.
AutoActivates(fitness) == RatLeq(Rat(80, 1), fitness)

\* No request in flight: the locals of evolve are gone.
EvolveCleared ==
    /\ ga' = None
    /\ heap' = <<>>
    /\ next_id' = 1
    /\ generation' = 0
    /\ population' = <<>>
    /\ fitness_scores' = <<>>
    /\ best_fitness' = Rat(0, 1)
    /\ best_individual' = NoList
    /\ generations_without_improvement' = 0
    /\ selected_population' = <<>>
    /\ new_population' = <<>>
    /\ parents' = <<>>
    /\ children' = <<>>
    /\ call' = <<>>

\* Lines 254-272: a valid generate request for one department, year 1,
\* semester 1; the GeneticAlgorithm is built and evolve() starts.
GenerateRequest ==
    /\ pc = "idle"
    /\ Len(db.Timetable) < MaxTimetables
    /\ \E department_id \in RequestDepartments, population_size \in 0..1 :
          /\ call' = [department_ids |-> {department_id}, years |-> {1}, semester |-> 1]
          /\ ga' = NewGA(db, [department_ids |-> {department_id}, years |-> {1},
                              semester |-> 1,
                              population_size |-> population_size,
                              mutation_rate |-> DefaultMutationRate,
                              elite_rate |-> DefaultEliteRate,
                              generations |-> 1])
    /\ pc' = "evolve"
    /\ UNCHANGED <<db, heap, next_id, evolveVars>>

\* Line 273: a step of ga.evolve().
GenerateEvolves ==
    /\ pc \notin {"idle", "raised", "STALLED", "CONVERGED", "EXHAUSTED"}
    /\ Next

\* Lines 275-351 after evolve() has returned: the timetable row is created
\* for the first department and the least year of the request, with the
\* Class rows of the complete dicts, and is made active when fitness >= 80.
GenerateResponds ==
    /\ EvolveReturned
    /\ LET best_solution == IF best_individual = NoList THEN <<>>
                            ELSE Deref(heap, best_individual)
           primary_department == CHOOSE d \in call.department_ids :
                                    \A e \in call.department_ids : d <= e
           year == CHOOSE y \in call.years : \A z \in call.years : y <= z
       IN  db' = [db EXCEPT !.Timetable = Append(@,
                     TimetableRow(primary_department, year, call.semester,
                                  StoredFitness(best_fitness),
                                  AutoActivates(best_fitness),
                                  Cardinality(ClassRows(best_solution))))]
    /\ pc' = "idle"
    /\ EvolveCleared

\* Lines 353-355: evolve() raised; the response is an error and no row is
\* created.
GenerateFails ==
    /\ pc = "raised"
    /\ pc' = "idle"
    /\ EvolveCleared
    /\ UNCHANGED db

\* Lines 410-421: activate of the timetable pk.
Activate ==
    /\ pc = "idle"
    /\ \E pk \in DOMAIN db.Timetable :
          LET timetable == db.Timetable[pk]
          IN  db' = [db EXCEPT !.Timetable =
                        [k \in DOMAIN @ |->
                            IF k = pk THEN [@[k] EXCEPT !.is_active = TRUE]
                            ELSE IF /\ @[k].department = timetable.department
                                    /\ @[k].year = timetable.year
                                    /\ @[k].semester = timetable.semester
                                 THEN [@[k] EXCEPT !.is_active = FALSE]
                                 ELSE @[k]]]
    /\ UNCHANGED <<ga, pc, heap, next_id, evolveVars, call>>

InitTimetables ==
    /\ db = TimetableCatalog @@ [Timetable |-> <<>>]
    /\ ga = None
    /\ pc = "idle"
    /\ heap = <<>>
    /\ next_id = 1
    /\ IdleEvolve
    /\ call = <<>>

NextTimetables ==
    \/ GenerateRequest
    \/ GenerateEvolves
    \/ GenerateResponds
    \/ GenerateFails
    \/ Activate

SpecTimetables == InitTimetables /\ [][NextTimetables]_vars

\* The active timetables of one department, year and semester.
ActiveTimetables(department, year, semester) ==
    {k \in DOMAIN db.Timetable :
        /\ db.Timetable[k].is_active
        /\ db.Timetable[k].department = department
        /\ db.Timetable[k].year = year
        /\ db.Timetable[k].semester = semester}

\* C24: after any sequence of generate requests (which make the new
\* timetable active when its fitness is >= 80) and activate requests, at most
\* one timetable of a given department, year and semester is active.
C24_OneActiveTimetable ==
    \A k \in DOMAIN db.Timetable :
        Cardinality(ActiveTimetables(db.Timetable[k].department, db.Timetable[k].year,
                                     db.Timetable[k].semester)) <= 1

====
